---- MODULE Spec2Model ----
(***************************************************************************)
(* Schedule builder of the class form (schedule-builder script,            *)
(* src/unnamed/part_001) and its caller editClass / showAddClassModal      *)
(* (src/frontend/static/js/manual_attendance.js).                          *)
(*                                                                         *)
(* JavaScript strings are modelled as sequences of one-character strings,  *)
(* so that formatting and parsing are computed character by character.     *)
(***************************************************************************)
EXTENDS Integers, Sequences, FiniteSets, TLC

\* ------------------------------------------------------------------
\* Characters and string primitives (String.prototype.* as the code uses them)
\* ------------------------------------------------------------------

DigitChars == <<"0", "1", "2", "3", "4", "5", "6", "7", "8", "9">>

UpperChars == <<"A", "B", "C", "D", "E", "F", "G", "H", "I", "J", "K", "L", "M",
                "N", "O", "P", "Q", "R", "S", "T", "U", "V", "W", "X", "Y", "Z">>

LowerChars == <<"a", "b", "c", "d", "e", "f", "g", "h", "i", "j", "k", "l", "m",
                "n", "o", "p", "q", "r", "s", "t", "u", "v", "w", "x", "y", "z">>

Range(f) == {f[i] : i \in DOMAIN f}

\* \d
IsDigit(c) == c \in Range(DigitChars)

\* [A-Za-z]
IsLetter(c) == c \in Range(UpperChars) \cup Range(LowerChars)

\* \s (the only white space of the modelled inputs is the blank)
IsSpace(c) == c = " "

DigitVal(c) == (CHOOSE i \in 1..10 : DigitChars[i] = c) - 1

\* String.prototype.toUpperCase, one character
UpperChar(c) ==
    IF c \in Range(LowerChars)
    THEN UpperChars[CHOOSE i \in 1..26 : LowerChars[i] = c]
    ELSE c

\* String.prototype.toUpperCase
ToUpperCase(s) == [i \in 1..Len(s) |-> UpperChar(s[i])]

\* character at 1-based position p, "" past the end
At(s, p) == IF p >= 1 /\ p <= Len(s) THEN s[p] ELSE ""

\* first position >= p that holds no white space (\s* consumed greedily)
RECURSIVE SkipSpaces(_, _)
SkipSpaces(s, p) == IF IsSpace(At(s, p)) THEN SkipSpaces(s, p + 1) ELSE p

\* first position >= p that holds no letter ([A-Za-z]+ consumed greedily)
RECURSIVE SkipLetters(_, _)
SkipLetters(s, p) == IF IsLetter(At(s, p)) THEN SkipLetters(s, p + 1) ELSE p

\* String.prototype.trim
RECURSIVE TrimLeft(_)
TrimLeft(s) == IF s # <<>> /\ IsSpace(Head(s)) THEN TrimLeft(Tail(s)) ELSE s

RECURSIVE TrimRight(_)
TrimRight(s) ==
    IF s # <<>> /\ IsSpace(s[Len(s)]) THEN TrimRight(SubSeq(s, 1, Len(s) - 1)) ELSE s

Trim(s) == TrimRight(TrimLeft(s))

\* String.prototype.split(sep) for a one-character separator: the pieces
\* between the separators, empty pieces included
RECURSIVE SplitFrom(_, _, _)
SplitFrom(s, sep, cur) ==
    IF s = <<>> THEN <<cur>>
    ELSE IF Head(s) = sep THEN <<cur>> \o SplitFrom(Tail(s), sep, <<>>)
    ELSE SplitFrom(Tail(s), sep, Append(cur, Head(s)))

Split(s, sep) == SplitFrom(s, sep, <<>>)

\* Array.prototype.join(sep) on strings
RECURSIVE Join(_, _)
Join(parts, sep) ==
    IF parts = <<>> THEN <<>>
    ELSE IF Len(parts) = 1 THEN parts[1]
    ELSE parts[1] \o sep \o Join(Tail(parts), sep)

\* Array.prototype.filter(s => s) on strings: the non-empty ones, in order
RECURSIVE FilterNonEmpty(_)
FilterNonEmpty(parts) ==
    IF parts = <<>> THEN <<>>
    ELSE IF Head(parts) = <<>> THEN FilterNonEmpty(Tail(parts))
    ELSE <<Head(parts)>> \o FilterNonEmpty(Tail(parts))

\* parseInt(s, 10) / Number(s) on the digit strings the code hands it:
\* the value of the leading run of digits (NaN, written -1, when there is none)
RECURSIVE DigitsValue(_, _)
DigitsValue(s, acc) ==
    IF s = <<>> \/ ~IsDigit(Head(s)) THEN acc
    ELSE DigitsValue(Tail(s), acc * 10 + DigitVal(Head(s)))

ParseInt(s) == IF s = <<>> \/ ~IsDigit(Head(s)) THEN -1 ELSE DigitsValue(s, 0)

\* Number.prototype.toString for a natural number
RECURSIVE NumToString(_)
NumToString(n) ==
    IF n < 10 THEN <<DigitChars[n + 1]>>
    ELSE NumToString(n \div 10) \o <<DigitChars[(n % 10) + 1]>>

\* String.prototype.padStart(2, '0')
PadStart2(s) == IF Len(s) < 2 THEN [i \in 1..(2 - Len(s)) |-> "0"] \o s ELSE s

\* ------------------------------------------------------------------
\* 12/24-hour conversion
\* ------------------------------------------------------------------

\* formatTimeForSchedule(timeString): 24-hour 'HH:MM' -> 'H:MM AM|PM'
formatTimeForSchedule(timeString) ==
    IF timeString = <<>> THEN <<>>
    ELSE LET parts == Split(timeString, ":")
             hours == parts[1]
             minutes == IF Len(parts) >= 2 THEN parts[2] ELSE <<>>
             hour == ParseInt(hours)
             suffix == IF hour >= 12 THEN <<"P", "M">> ELSE <<"A", "M">>
             displayHour == IF hour % 12 = 0 THEN 12 ELSE hour % 12
         IN  NumToString(displayHour) \o <<":">> \o minutes \o <<" ">> \o suffix

\* the length of a match of \d{1,2}:\d{2} at position p, 0 when there is none
TimeMatchLen(s, p) ==
    IF IsDigit(At(s, p)) /\ At(s, p + 1) = ":"
          /\ IsDigit(At(s, p + 2)) /\ IsDigit(At(s, p + 3)) THEN 4
    ELSE IF IsDigit(At(s, p)) /\ IsDigit(At(s, p + 1)) /\ At(s, p + 2) = ":"
          /\ IsDigit(At(s, p + 3)) /\ IsDigit(At(s, p + 4)) THEN 5
    ELSE 0

\* (AM|PM) under the i flag at position p
IsAmPmAt(s, p) ==
    /\ UpperChar(At(s, p)) \in {"A", "P"}
    /\ UpperChar(At(s, p + 1)) = "M"

\* parse12HourTime without the branch that turns 12 AM into hour 0
parse12HourTimeNoMidnight(timeStr) ==
    LET t == Trim(timeStr)
        n == TimeMatchLen(t, 1)
        q == SkipSpaces(t, n + 1)
        matched == n > 0 /\ IsAmPmAt(t, q) /\ q + 1 = Len(t)
    IN  IF ~matched THEN <<>>
        ELSE LET hours0 == ParseInt(SubSeq(t, 1, n - 3))
                 minutes == SubSeq(t, n - 1, n)
                 ampm == ToUpperCase(SubSeq(t, q, q + 1))
                 hours == IF ampm = <<"P", "M">> /\ hours0 < 12 THEN hours0 + 12
                          ELSE hours0
             IN  PadStart2(NumToString(hours)) \o <<":">> \o minutes

\* a parse12HourTime that reads a time without AM/PM as a morning time
parse12HourTimeDefaultAm(timeStr) ==
    LET t == Trim(timeStr)
        n == TimeMatchLen(t, 1)
        q == SkipSpaces(t, n + 1)
        bare == n > 0 /\ n = Len(t)
        matched == n > 0 /\ IsAmPmAt(t, q) /\ q + 1 = Len(t)
    IN  IF bare THEN PadStart2(NumToString(ParseInt(SubSeq(t, 1, n - 3))))
                         \o <<":">> \o SubSeq(t, n - 1, n)
        ELSE IF ~matched THEN <<>>
        ELSE LET hours0 == ParseInt(SubSeq(t, 1, n - 3))
                 minutes == SubSeq(t, n - 1, n)
                 ampm == ToUpperCase(SubSeq(t, q, q + 1))
                 hours == IF ampm = <<"P", "M">> /\ hours0 < 12 THEN hours0 + 12
                          ELSE IF ampm = <<"A", "M">> /\ hours0 = 12 THEN 0
                          ELSE hours0
             IN  PadStart2(NumToString(hours)) \o <<":">> \o minutes

\* parse12HourTime(timeStr): 'H:MM AM|PM' -> 'HH:MM', '' on failure
parse12HourTime(timeStr) ==
    LET t == Trim(timeStr)
        n == TimeMatchLen(t, 1)
        q == SkipSpaces(t, n + 1)
        matched == n > 0 /\ IsAmPmAt(t, q) /\ q + 1 = Len(t)
    IN  IF ~matched THEN <<>>
        ELSE LET hours0 == ParseInt(SubSeq(t, 1, n - 3))
                 minutes == SubSeq(t, n - 1, n)
                 ampm == ToUpperCase(SubSeq(t, q, q + 1))
                 hours == IF ampm = <<"P", "M">> /\ hours0 < 12 THEN hours0 + 12
                          ELSE IF ampm = <<"A", "M">> /\ hours0 = 12 THEN 0
                          ELSE hours0
             IN  PadStart2(NumToString(hours)) \o <<":">> \o minutes

\* ------------------------------------------------------------------
\* Slots and the formatter
\* ------------------------------------------------------------------

\* the keys of dayOrder, in the order of their values 0..6
DayCodes == << <<"M">>, <<"T">>, <<"W">>, <<"T", "h">>, <<"F">>, <<"S">>, <<"S", "u">> >>

IsDayCode(d) == d \in Range(DayCodes)

\* dayOrder[d] for a key of dayOrder
dayOrder(d) == (CHOOSE i \in 1..Len(DayCodes) : DayCodes[i] = d) - 1

\* the comparator (a, b) => dayOrder[a] - dayOrder[b]; for a day that is no key
\* of dayOrder the difference is NaN, which Array.prototype.sort reads as +0
CompareDays(a, b) ==
    IF IsDayCode(a) /\ IsDayCode(b) THEN dayOrder(a) - dayOrder(b) ELSE 0

\* whether the comparator is a consistent comparator on these values
\* (ECMAScript: equality under the comparator must be transitive)
ConsistentComparator(days) ==
    \A a, b, c \in Range(days) :
        (CompareDays(a, b) = 0 /\ CompareDays(b, c) = 0) => CompareDays(a, c) = 0

\* insertion of d after every element that does not compare greater (stable)
RECURSIVE InsertDay(_, _)
InsertDay(sorted, d) ==
    IF sorted = <<>> THEN <<d>>
    ELSE IF CompareDays(Head(sorted), d) > 0 THEN <<d>> \o sorted
    ELSE <<Head(sorted)>> \o InsertDay(Tail(sorted), d)

RECURSIVE StableSortDays(_)
StableSortDays(days) ==
    IF days = <<>> THEN <<>>
    ELSE InsertDay(StableSortDays(SubSeq(days, 1, Len(days) - 1)), days[Len(days)])

\* slot.days.sort(comparator): the arrays the call can leave in slot.days.
\* With a consistent comparator the stable sort; otherwise the order is
\* implementation-defined, any permutation of the array.
SortDaysOutcomes(days) ==
    IF ConsistentComparator(days) THEN {StableSortDays(days)}
    ELSE {[i \in 1..Len(days) |-> days[p[i]]] : p \in Permutations(1..Len(days))}

\* the text formatSchedule renders for one slot whose days are already sorted
FormatSlot(slot) ==
    Join(slot.days, <<>>) \o <<" ">> \o formatTimeForSchedule(slot.startTime)
        \o <<"-">> \o formatTimeForSchedule(slot.endTime)

RECURSIVE FormatSlots(_)
FormatSlots(slots) ==
    IF slots = <<>> THEN <<>>
    ELSE <<FormatSlot(Head(slots))>> \o FormatSlots(Tail(slots))

\* the slot lists formatSchedule can leave behind: it sorts every slot's days
\* array in place
RECURSIVE SortAllDays(_)
SortAllDays(slots) ==
    IF slots = <<>> THEN {<<>>}
    ELSE {<<[Head(slots) EXCEPT !.days = d]>> \o rest :
            d \in SortDaysOutcomes(Head(slots).days), rest \in SortAllDays(Tail(slots))}

\* formatSchedule(): the possible outcomes of one call on the slot list,
\* each the slot list after the call and the string returned
formatSchedule(slots) ==
    IF Len(slots) = 0 THEN {[timeSlots |-> slots, result |-> <<>>]}
    ELSE {[timeSlots |-> sorted, result |-> Join(FormatSlots(sorted), <<",", " ">>)] :
            sorted \in SortAllDays(slots)}

\* ------------------------------------------------------------------
\* The builder's state as a record, threaded through the helper functions:
\*   timeSlots, timeSlotCounter (module variables), scheduleField (value of
\*   the hidden #schedule input), scheduleDisplay (ids of the slots rendered
\*   in #scheduleDisplay, each with its remove button)
\* ------------------------------------------------------------------

RECURSIVE SlotIdsOf(_)
SlotIdsOf(slots) ==
    IF slots = <<>> THEN <<>> ELSE <<Head(slots).id>> \o SlotIdsOf(Tail(slots))

\* updateScheduleDisplay that returns on an empty list without clearing the
\* hidden field
updateScheduleDisplayKeepField(b) ==
    IF Len(b.timeSlots) = 0
    THEN {[b EXCEPT !.scheduleDisplay = <<>>]}
    ELSE {[b EXCEPT !.timeSlots = o.timeSlots,
                    !.scheduleDisplay = SlotIdsOf(b.timeSlots),
                    !.scheduleField = o.result] : o \in formatSchedule(b.timeSlots)}

\* updateScheduleDisplay(): the builder states the call can produce
updateScheduleDisplay(b) ==
    IF Len(b.timeSlots) = 0
    THEN {[b EXCEPT !.scheduleDisplay = <<>>, !.scheduleField = <<>>]}
    ELSE {[b EXCEPT !.timeSlots = o.timeSlots,
                    !.scheduleDisplay = SlotIdsOf(b.timeSlots),
                    !.scheduleField = o.result] : o \in formatSchedule(b.timeSlots)}

\* addTimeSlot that puts the slot at the head of the list
addTimeSlotAtHead(b, slot) ==
    updateScheduleDisplay([b EXCEPT !.timeSlots = <<slot>> \o b.timeSlots])

\* addTimeSlot(slot)
addTimeSlot(b, slot) ==
    updateScheduleDisplay([b EXCEPT !.timeSlots = Append(b.timeSlots, slot)])

\* timeSlots.filter(slot => slot.id !== slotId)
RECURSIVE FilterOutId(_, _)
FilterOutId(slots, slotId) ==
    IF slots = <<>> THEN <<>>
    ELSE IF Head(slots).id # slotId
         THEN <<Head(slots)>> \o FilterOutId(Tail(slots), slotId)
         ELSE FilterOutId(Tail(slots), slotId)

\* removeTimeSlot that filters the list but does not refresh the display
removeTimeSlotNoRefresh(b, slotId) ==
    {[b EXCEPT !.timeSlots = FilterOutId(b.timeSlots, slotId)]}

\* removeTimeSlot(slotId)
removeTimeSlot(b, slotId) ==
    updateScheduleDisplay([b EXCEPT !.timeSlots = FilterOutId(b.timeSlots, slotId)])

\* ------------------------------------------------------------------
\* The parser
\* ------------------------------------------------------------------

NoMatch ==
    [ok |-> FALSE, dayString |-> <<>>, startTimeStr |-> <<>>, endTimeStr |-> <<>>]

\* slot.match(/^([A-Za-z]+)\s+(\d{1,2}:\d{2})\s*(AM|PM)?\s*-\s*(\d{1,2}:\d{2})\s*(AM|PM)$/i)
\* and the strings built from its groups: dayString (upper case) and the two
\* 12-hour strings '<time>[ <AMPM>]'
MatchEntry(slot) ==
    LET p1 == SkipLetters(slot, 1)
        p2 == SkipSpaces(slot, p1)
        n1 == TimeMatchLen(slot, p2)
        p3 == SkipSpaces(slot, p2 + n1)
        hasStartAmpm == IsAmPmAt(slot, p3)
        p4 == SkipSpaces(slot, IF hasStartAmpm THEN p3 + 2 ELSE p3)
        p5 == SkipSpaces(slot, p4 + 1)
        n2 == TimeMatchLen(slot, p5)
        p6 == SkipSpaces(slot, p5 + n2)
    IN  IF /\ p1 > 1
           /\ p2 > p1
           /\ n1 > 0
           /\ At(slot, p4) = "-"
           /\ n2 > 0
           /\ IsAmPmAt(slot, p6)
           /\ p6 + 1 = Len(slot)
        THEN [ok |-> TRUE,
              dayString |-> ToUpperCase(SubSeq(slot, 1, p1 - 1)),
              startTimeStr |->
                  SubSeq(slot, p2, p2 + n1 - 1)
                      \o (IF hasStartAmpm
                          THEN <<" ">> \o ToUpperCase(SubSeq(slot, p3, p3 + 1))
                          ELSE <<>>),
              endTimeStr |->
                  SubSeq(slot, p5, p5 + n2 - 1)
                      \o <<" ">> \o ToUpperCase(SubSeq(slot, p6, p6 + 1))]
        ELSE NoMatch

\* the while loop over dayString: TH and SU first, then one of MTWFS, any
\* other character skipped
RECURSIVE ParseDays(_, _)
ParseDays(dayString, i) ==
    IF i > Len(dayString) THEN <<>>
    ELSE IF i + 1 <= Len(dayString)
            /\ SubSeq(dayString, i, i + 1) \in {<<"T", "H">>, <<"S", "U">>}
         THEN <<SubSeq(dayString, i, i + 1)>> \o ParseDays(dayString, i + 2)
    ELSE IF dayString[i] \in {"M", "T", "W", "F", "S"}
         THEN <<<<dayString[i]>>>> \o ParseDays(dayString, i + 1)
    ELSE ParseDays(dayString, i + 1)

\* the entries of a schedule string: split(',').map(s => s.trim()).filter(s => s)
RECURSIVE TrimAll(_)
TrimAll(parts) ==
    IF parts = <<>> THEN <<>> ELSE <<Trim(Head(parts))>> \o TrimAll(Tail(parts))

ScheduleEntries(scheduleString) == FilterNonEmpty(TrimAll(Split(scheduleString, ",")))

\* one iteration of slots.forEach in parseExistingSchedule
ParseEntry(b, slot) ==
    LET parts == MatchEntry(slot)
        startTime == parse12HourTime(parts.startTimeStr)
        endTime == parse12HourTime(parts.endTimeStr)
    IN  IF parts.ok /\ startTime # <<>> /\ endTime # <<>>
        THEN addTimeSlot([b EXCEPT !.timeSlotCounter = b.timeSlotCounter + 1],
                         [id |-> b.timeSlotCounter,
                          days |-> ParseDays(parts.dayString, 1),
                          startTime |-> startTime,
                          endTime |-> endTime,
                          isOvernight |-> "undefined"])
        ELSE {b}

\* a forEach that stops at the first entry that adds no slot
RECURSIVE ParseEntriesAborting(_, _)
ParseEntriesAborting(bs, slots) ==
    IF slots = <<>> THEN bs
    ELSE UNION {IF ParseEntry(b, Head(slots)) = {b} THEN {b}
                ELSE ParseEntriesAborting(ParseEntry(b, Head(slots)), Tail(slots)) :
                  b \in bs}

RECURSIVE ParseEntries(_, _)
ParseEntries(bs, slots) ==
    IF slots = <<>> THEN bs
    ELSE ParseEntries(UNION {ParseEntry(b, Head(slots)) : b \in bs}, Tail(slots))

\* parseExistingSchedule(scheduleString)
parseExistingSchedule(b, scheduleString) ==
    IF scheduleString = <<>> THEN {b}
    ELSE ParseEntries({[b EXCEPT !.timeSlots = <<>>]}, ScheduleEntries(scheduleString))

\* ------------------------------------------------------------------
\* Inputs of the model
\* ------------------------------------------------------------------

\* cap on timeSlotCounter: add-slot clicks are taken while it is below the cap
MaxCounter == 2

\* cap on the calls of setupScheduleBuilder in one page session
MaxSetups == 3

\* the day buttons (.checkbox-btn, data-day) the modelled user clicks
DayButtons == {<<"T">>, <<"T", "h">>}

\* the values the modelled user types into #startTime / #endTime
\* (an <input type="time"> holds 24-hour HH:MM)
TimeChoices == {<<"0", "9", ":", "0", "0">>}

\* the slot lists of the formatter's documented examples
ExampleSlots ==
    <<[id |-> 0, days |-> << <<"M">>, <<"W">>, <<"F">> >>,
       startTime |-> <<"1", "0", ":", "0", "0">>, endTime |-> <<"1", "2", ":", "0", "0">>,
       isOvernight |-> "false"],
      [id |-> 1, days |-> << <<"T">>, <<"T", "h">> >>,
       startTime |-> <<"1", "3", ":", "0", "0">>, endTime |-> <<"1", "4", ":", "3", "0">>,
       isOvernight |-> "false"]>>

\* "MWF 10:00 AM-12:00 PM, TTh 1:00 PM-2:30 PM"
ExampleSchedule ==
    <<"M", "W", "F", " ", "1", "0", ":", "0", "0", " ", "A", "M", "-", "1", "2", ":", "0",
      "0", " ", "P", "M", ",", " ", "T", "T", "h", " ", "1", ":", "0", "0", " ", "P", "M",
      "-", "2", ":", "3", "0", " ", "P", "M">>

\* "MWF 10:00 AM-12:00 PM"
ExampleFirstEntry ==
    <<"M", "W", "F", " ", "1", "0", ":", "0", "0", " ", "A", "M", "-", "1", "2", ":", "0",
      "0", " ", "P", "M">>

\* "MWF 10:00 AM-12:00 PM, garbage-entry, TTh 1:00 PM-2:30 PM"
GarbageSchedule ==
    <<"M", "W", "F", " ", "1", "0", ":", "0", "0", " ", "A", "M", "-", "1", "2", ":", "0",
      "0", " ", "P", "M", ",", " ", "g", "a", "r", "b", "a", "g", "e", "-", "e", "n", "t",
      "r", "y", ",", " ", "T", "T", "h", " ", "1", ":", "0", "0", " ", "P", "M", "-", "2",
      ":", "3", "0", " ", "P", "M">>

\* "TH 9:00 AM-10:00 AM"
ThursdaySchedule ==
    <<"T", "H", " ", "9", ":", "0", "0", " ", "A", "M", "-", "1", "0", ":", "0", "0", " ",
      "A", "M">>

\* "ThM 9:00 AM-10:00 AM": days stored out of weekday order
UnorderedSchedule ==
    <<"T", "h", "M", " ", "9", ":", "0", "0", " ", "A", "M", "-", "1", "0", ":", "0", "0",
      " ", "A", "M">>

\* "MWTh 8:00 AM-9:00 AM"
ThreeDaySchedule ==
    <<"M", "W", "T", "h", " ", "8", ":", "0", "0", " ", "A", "M", "-", "9", ":", "0", "0",
      " ", "A", "M">>

\* "TTh 10:00 AM-12:00 PM": what the form hands over for saving after the days
\* T and Th were added with the default times
ClickedSchedule ==
    <<"T", "T", "h", " ", "1", "0", ":", "0", "0", " ", "A", "M", "-", "1", "2", ":", "0",
      "0", " ", "P", "M">>

\* "X 9:00 AM-10:00 AM": a day block without a day letter
NoDaySchedule ==
    <<"X", " ", "9", ":", "0", "0", " ", "A", "M", "-", "1", "0", ":", "0", "0", " ", "A",
      "M">>

\* "MM 9:00 AM-10:00 AM": a day written twice
RepeatedDaySchedule ==
    <<"M", "M", " ", "9", ":", "0", "0", " ", "A", "M", "-", "1", "0", ":", "0", "0", " ",
      "A", "M">>

\* "M 9:00 AM-9:00 AM": end equal to start
EqualTimesSchedule ==
    <<"M", " ", "9", ":", "0", "0", " ", "A", "M", "-", "9", ":", "0", "0", " ", "A", "M">>

\* "M 25:75 AM-2:00 PM": a start time that matches \d{1,2}:\d{2} and is no time
BadClockSchedule ==
    <<"M", " ", "2", "5", ":", "7", "5", " ", "A", "M", "-", "2", ":", "0", "0", " ", "P",
      "M">>

\* entries of stored schedule strings, well-formed and malformed
EntryMWF ==
    <<"M", "W", "F", " ", "1", "0", ":", "0", "0", " ", "A", "M", "-", "1", "2", ":", "0",
      "0", " ", "P", "M">>

EntryGarbage ==
    <<"g", "a", "r", "b", "a", "g", "e", "-", "e", "n", "t", "r", "y">>

EntryTTh ==
    <<"T", "T", "h", " ", "1", ":", "0", "0", " ", "P", "M", "-", "2", ":", "3", "0", " ",
      "P", "M">>

\* no AM/PM on the start time
EntryNoStartAmPm ==
    <<"M", " ", "9", ":", "0", "0", "-", "1", "0", ":", "0", "0", " ", "A", "M">>

\* no AM/PM on the end time
EntryNoEndAmPm ==
    <<"W", " ", "9", ":", "0", "0", " ", "A", "M", "-", "1", "0", ":", "0", "0">>

\* lower case, blanks around the dash, none before pm
EntryLoose ==
    <<"s", "u", " ", "1", "2", ":", "1", "5", " ", "a", "m", " ", "-", " ", "1", ":", "0",
      "0", "p", "m">>

EntryPool ==
    {EntryMWF, EntryGarbage, EntryTTh, EntryNoStartAmPm, EntryNoEndAmPm, EntryLoose, <<>>}

\* number of comma-separated entries of a parsed input
MaxEntries == 3

EntrySeqs == UNION {[1..n -> EntryPool] : n \in 0..MaxEntries}

\* the schedule strings made of up to MaxEntries entries joined with ", "
ParseInputs == {Join(es, <<",", " ">>) : es \in EntrySeqs}

\* classToEdit.schedule: the schedule strings of the class records the
\* backend hands to editClass
StoredSchedules ==
    {<<>>, ExampleSchedule, GarbageSchedule, ThursdaySchedule, UnorderedSchedule,
     ThreeDaySchedule, ClickedSchedule, NoDaySchedule, RepeatedDaySchedule,
     EqualTimesSchedule, BadClockSchedule}

\* ------------------------------------------------------------------
\* State
\* ------------------------------------------------------------------

VARIABLES
    timeSlots,        \* let timeSlots: the slot list
    selectedDays,     \* let selectedDays: a Set, kept in insertion order
    timeSlotCounter,  \* let timeSlotCounter
    dayChecked,       \* the day codes whose input.day-checkbox is checked
    startTimeInput,   \* value of #startTime
    endTimeInput,     \* value of #endTime
    scheduleField,    \* value of the hidden #schedule input
    scheduleDisplay,  \* ids of the slots rendered in #scheduleDisplay
    dayListeners,     \* how many times the day buttons were given their listeners
    pendingChecks,    \* the request bodies of the conflict checks still in flight
    watched,          \* history: the place in pendingChecks of one submit attempt
                      \* that is followed to its end, 0 when none is
    idsAssigned,      \* history: the ids given to slots since the page was loaded
    lastOp,           \* the handler that ran last and how it ended
    timeConv          \* a time taken through formatTimeForSchedule and parse12HourTime

vars == <<timeSlots, selectedDays, timeSlotCounter, dayChecked, startTimeInput,
          endTimeInput, scheduleField, scheduleDisplay, dayListeners, pendingChecks,
          watched, idsAssigned, lastOp, timeConv>>

builderVars == <<timeSlots, selectedDays, timeSlotCounter, dayChecked, startTimeInput,
                 endTimeInput, scheduleField, scheduleDisplay, dayListeners,
                 pendingChecks, watched, idsAssigned, lastOp>>

\* the part of the state the helper functions work on
Builder ==
    [timeSlots |-> timeSlots, timeSlotCounter |-> timeSlotCounter,
     scheduleField |-> scheduleField, scheduleDisplay |-> scheduleDisplay]

SetBuilder(b) ==
    /\ timeSlots' = b.timeSlots
    /\ timeSlotCounter' = b.timeSlotCounter
    /\ scheduleField' = b.scheduleField
    /\ scheduleDisplay' = b.scheduleDisplay

\* no conflict check belongs to the handler that ran last
NoCheck ==
    [fetched |-> FALSE, body |-> <<>>, response |-> "none", hasConflict |-> FALSE,
     message |-> "", confirmAsked |-> FALSE, confirmed |-> FALSE, submitted |-> <<>>,
     wasWatched |-> FALSE]

Op(op, outcome, slotId) ==
    [op |-> op, outcome |-> outcome, slotId |-> slotId, check |-> NoCheck]

\* the record of a handler that ran a conflict check
OpCheck(op, outcome, check) ==
    [op |-> op, outcome |-> outcome, slotId |-> -1, check |-> check]

NoTimeConv == [step |-> "idle", input |-> <<>>, formatted |-> <<>>, parsed |-> <<>>]

\* the state once the page has loaded: the module's initial values, then the
\* DOMContentLoaded call setupScheduleBuilder() with no schedule
Init ==
    /\ timeSlots = <<>>
    /\ selectedDays = <<>>
    /\ timeSlotCounter = 0
    /\ dayChecked = {}
    /\ startTimeInput = <<>>
    /\ endTimeInput = <<>>
    /\ scheduleField = <<>>
    /\ scheduleDisplay = <<>>
    /\ dayListeners = 1
    /\ pendingChecks = <<>>
    /\ watched = 0
    /\ idsAssigned = {}
    /\ lastOp = Op("setupScheduleBuilder", "done", -1)
    /\ timeConv = NoTimeConv

\* ------------------------------------------------------------------
\* Day selection and time inputs
\* ------------------------------------------------------------------

\* Set.prototype.add / delete on the insertion-ordered set
SetAdd(s, d) == IF d \in Range(s) THEN s ELSE Append(s, d)

RECURSIVE SetDelete(_, _)
SetDelete(s, d) ==
    IF s = <<>> THEN <<>>
    ELSE IF Head(s) = d THEN SetDelete(Tail(s), d)
    ELSE <<Head(s)>> \o SetDelete(Tail(s), d)

\* the change handler of a day checkbox
ChangeHandler(selected, day, isChecked) ==
    IF isChecked THEN SetAdd(selected, day) ELSE SetDelete(selected, day)

\* the user clicks a day checkbox itself: the box toggles and its change
\* handlers run
DayCheckboxChange(day) ==
    /\ dayChecked' = IF day \in dayChecked THEN dayChecked \ {day}
                     ELSE dayChecked \cup {day}
    /\ selectedDays' = ChangeHandler(selectedDays, day, day \in dayChecked')
    /\ lastOp' = Op("input", "done", -1)
    /\ UNCHANGED <<timeSlots, timeSlotCounter, startTimeInput, endTimeInput,
                   scheduleField, scheduleDisplay, dayListeners,
                   pendingChecks, watched, idsAssigned, timeConv>>

\* the n click listeners of a day button, run one after the other: each flips
\* the checkbox and dispatches change
RECURSIVE LabelClickListeners(_, _, _, _)
LabelClickListeners(n, day, isChecked, selected) ==
    IF n = 0 THEN [checked |-> isChecked, selectedDays |-> selected]
    ELSE LabelClickListeners(n - 1, day, ~isChecked,
                             ChangeHandler(selected, day, ~isChecked))

\* the user clicks a day button on its label (e.target === button)
DayLabelClick(day) ==
    LET after == LabelClickListeners(dayListeners, day, day \in dayChecked, selectedDays)
    IN  /\ dayChecked' = IF after.checked THEN dayChecked \cup {day}
                         ELSE dayChecked \ {day}
        /\ selectedDays' = after.selectedDays
        /\ lastOp' = Op("dayLabelClick", "done", -1)
        /\ UNCHANGED <<timeSlots, timeSlotCounter, startTimeInput, endTimeInput,
                       scheduleField, scheduleDisplay, dayListeners,
                       pendingChecks, watched, idsAssigned, timeConv>>

\* a reset-days click that unchecks the boxes and leaves selectedDays as it is
ResetDaysClickKeepSelected ==
    /\ dayChecked' = {}
    /\ lastOp' = Op("input", "done", -1)
    /\ UNCHANGED <<timeSlots, selectedDays, timeSlotCounter, startTimeInput, endTimeInput,
                   scheduleField, scheduleDisplay, dayListeners,
                   pendingChecks, watched, idsAssigned, timeConv>>

\* click on #resetDaysBtn
ResetDaysClick ==
    /\ dayChecked' = {}
    /\ selectedDays' = <<>>
    /\ lastOp' = Op("input", "done", -1)
    /\ UNCHANGED <<timeSlots, timeSlotCounter, startTimeInput, endTimeInput,
                   scheduleField, scheduleDisplay, dayListeners,
                   pendingChecks, watched, idsAssigned, timeConv>>

\* the user types a time into #startTime
SetStartTime(t) ==
    /\ startTimeInput # t
    /\ startTimeInput' = t
    /\ lastOp' = Op("input", "done", -1)
    /\ UNCHANGED <<timeSlots, selectedDays, timeSlotCounter, dayChecked, endTimeInput,
                   scheduleField, scheduleDisplay, dayListeners,
                   pendingChecks, watched, idsAssigned, timeConv>>

\* the user types a time into #endTime
SetEndTime(t) ==
    /\ endTimeInput # t
    /\ endTimeInput' = t
    /\ lastOp' = Op("input", "done", -1)
    /\ UNCHANGED <<timeSlots, selectedDays, timeSlotCounter, dayChecked, startTimeInput,
                   scheduleField, scheduleDisplay, dayListeners,
                   pendingChecks, watched, idsAssigned, timeConv>>

\* ------------------------------------------------------------------
\* Add-slot click
\* ------------------------------------------------------------------

\* hours * 60 + minutes of timeStr.split(':').map(Number)
TotalMinutes(timeStr) ==
    LET parts == Split(timeStr, ":")
    IN  ParseInt(parts[1]) * 60 + ParseInt(parts[2])

\* the validation with the last test dropped: equal times pass
AddClickWarningNoOrder(startTime, endTime, days) ==
    IF startTime = <<>> \/ endTime = <<>> THEN "Please select both start and end times."
    ELSE IF Len(days) = 0 THEN "Please select at least one day."
    ELSE ""

\* the validation of the click handler: the warning it shows, "" when it
\* goes on to add the slot
AddClickWarning(startTime, endTime, days) ==
    IF startTime = <<>> \/ endTime = <<>> THEN "Please select both start and end times."
    ELSE IF Len(days) = 0 THEN "Please select at least one day."
    ELSE LET isOvernight == TotalMinutes(endTime) < TotalMinutes(startTime)
         IN  IF ~isOvernight /\ TotalMinutes(endTime) <= TotalMinutes(startTime)
             THEN "End time must be after start time."
             ELSE ""

\* a rejected click that clears the selected days before it returns
AddClickRejectedClearing ==
    /\ lastOp' = Op("addTimeClick", "rejected", -1)
    /\ dayChecked' = {}
    /\ selectedDays' = <<>>
    /\ UNCHANGED <<timeSlots, timeSlotCounter, startTimeInput,
                   endTimeInput, scheduleField, scheduleDisplay, dayListeners,
                   pendingChecks, watched, idsAssigned, timeConv>>

\* the rejected click: a warning, nothing else
AddClickRejected ==
    /\ lastOp' = Op("addTimeClick", "rejected", -1)
    /\ UNCHANGED <<timeSlots, selectedDays, timeSlotCounter, dayChecked, startTimeInput,
                   endTimeInput, scheduleField, scheduleDisplay, dayListeners,
                   pendingChecks, watched, idsAssigned, timeConv>>

\* an accepted click that leaves timeSlotCounter as it is
AddClickAcceptedSameCounter(startTime, endTime) ==
    LET isOvernight == TotalMinutes(endTime) < TotalMinutes(startTime)
        slot == [id |-> timeSlotCounter,
                 days |-> selectedDays,
                 startTime |-> startTime,
                 endTime |-> endTime,
                 isOvernight |-> IF isOvernight THEN "true" ELSE "false"]
    IN  /\ \E b \in addTimeSlot(Builder, slot) : SetBuilder(b)
        /\ startTimeInput' = <<>>
        /\ endTimeInput' = <<>>
        /\ dayChecked' = {}
        /\ selectedDays' = <<>>
        /\ idsAssigned' = idsAssigned \cup {timeSlotCounter}
        /\ lastOp' = Op("addTimeClick", "added", -1)
        /\ UNCHANGED <<dayListeners, pendingChecks, watched, timeConv>>

\* the accepted click: the slot is added, the inputs and the days are cleared
AddClickAccepted(startTime, endTime) ==
    LET isOvernight == TotalMinutes(endTime) < TotalMinutes(startTime)
        slot == [id |-> timeSlotCounter,
                 days |-> selectedDays,
                 startTime |-> startTime,
                 endTime |-> endTime,
                 isOvernight |-> IF isOvernight THEN "true" ELSE "false"]
    IN  /\ \E b \in addTimeSlot([Builder EXCEPT !.timeSlotCounter = timeSlotCounter + 1],
                                slot) : SetBuilder(b)
        /\ startTimeInput' = <<>>
        /\ endTimeInput' = <<>>
        /\ dayChecked' = {}
        /\ selectedDays' = <<>>
        /\ idsAssigned' = idsAssigned \cup {timeSlotCounter}
        /\ lastOp' = Op("addTimeClick", "added", -1)
        /\ UNCHANGED <<dayListeners, pendingChecks, watched, timeConv>>

\* click on #addTimeBtn
AddTimeClick ==
    LET startTime == Trim(startTimeInput)
        endTime == Trim(endTimeInput)
    IN  /\ timeSlotCounter < MaxCounter
        /\ IF AddClickWarning(startTime, endTime, selectedDays) # ""
           THEN AddClickRejected
           ELSE AddClickAccepted(startTime, endTime)

\* ------------------------------------------------------------------
\* Remove, reset, edit
\* ------------------------------------------------------------------

SlotIds == 0..(MaxCounter - 1)

HasSlotId(slots, slotId) == \E i \in 1..Len(slots) : slots[i].id = slotId

\* removeTimeSlot(slotId), the handler of a slot's remove button
RemoveTimeSlot(slotId) ==
    /\ \E b \in removeTimeSlot(Builder, slotId) : SetBuilder(b)
    /\ lastOp' = Op("removeTimeSlot",
                    IF HasSlotId(timeSlots, slotId) THEN "removed" ELSE "absent",
                    slotId)
    /\ UNCHANGED <<selectedDays, dayChecked, startTimeInput, endTimeInput, dayListeners,
                   pendingChecks, watched, idsAssigned, timeConv>>

\* the builder part of the state resetScheduleBuilder leaves
ResetBuilder ==
    [timeSlots |-> <<>>, timeSlotCounter |-> 0,
     scheduleField |-> <<>>, scheduleDisplay |-> <<>>]

\* a reset that clears selectedDays but leaves the checkboxes as they are
ShowAddClassModalKeepChecked ==
    /\ SetBuilder(ResetBuilder)
    /\ selectedDays' = <<>>
    /\ startTimeInput' = <<"1", "0", ":", "0", "0">>
    /\ endTimeInput' = <<"1", "2", ":", "0", "0">>
    /\ lastOp' = Op("resetScheduleBuilder", "done", -1)
    /\ UNCHANGED <<dayChecked, dayListeners, pendingChecks, watched, idsAssigned, timeConv>>

\* showAddClassModal: resetScheduleBuilder()
ShowAddClassModal ==
    /\ SetBuilder(ResetBuilder)
    /\ selectedDays' = <<>>
    /\ dayChecked' = {}
    /\ startTimeInput' = <<"1", "0", ":", "0", "0">>
    /\ endTimeInput' = <<"1", "2", ":", "0", "0">>
    /\ lastOp' = Op("resetScheduleBuilder", "done", -1)
    /\ UNCHANGED <<dayListeners, pendingChecks, watched, idsAssigned, timeConv>>

\* setupScheduleBuilder(existingSchedule) on a builder state: the state is
\* reset, then the schedule is parsed, or the display refreshed when there is none
setupScheduleBuilder(b, existingSchedule) ==
    LET fresh == [b EXCEPT !.timeSlots = <<>>, !.timeSlotCounter = 0]
    IN  IF existingSchedule # <<>>
        THEN parseExistingSchedule(fresh, existingSchedule)
        ELSE updateScheduleDisplay(fresh)

\* what resetScheduleBuilder() followed by setupScheduleBuilder(schedule) can
\* leave, for each schedule string of the model
StoredSetups ==
    [s \in StoredSchedules \cup ParseInputs |-> setupScheduleBuilder(ResetBuilder, s)]

\* an editClass without its call of resetScheduleBuilder: setupScheduleBuilder
\* alone, on the builder as it is
EditClassNoReset(schedule) ==
    /\ dayListeners < MaxSetups
    /\ dayListeners' = dayListeners + 1
    /\ \E b \in setupScheduleBuilder(Builder, schedule) :
          /\ SetBuilder([b EXCEPT !.scheduleField = schedule])
          /\ idsAssigned' = idsAssigned \cup (0..(b.timeSlotCounter - 1))
    /\ selectedDays' = <<>>
    /\ lastOp' = Op("editClass", "done", -1)
    /\ UNCHANGED <<dayChecked, startTimeInput, endTimeInput, pendingChecks, watched, timeConv>>

\* an editClass that leaves the hidden field as setupScheduleBuilder wrote it
EditClassKeepFormatted(schedule) ==
    /\ dayListeners < MaxSetups
    /\ dayListeners' = dayListeners + 1
    /\ \E b \in StoredSetups[schedule] :
          /\ SetBuilder(b)
          /\ idsAssigned' = idsAssigned \cup (0..(b.timeSlotCounter - 1))
    /\ selectedDays' = <<>>
    /\ dayChecked' = {}
    /\ startTimeInput' = <<"1", "0", ":", "0", "0">>
    /\ endTimeInput' = <<"1", "2", ":", "0", "0">>
    /\ lastOp' = Op("editClass", "done", -1)
    /\ UNCHANGED <<pendingChecks, watched, timeConv>>

\* editClass: resetScheduleBuilder(), setupScheduleBuilder(classToEdit.schedule),
\* which gives the day buttons one more set of listeners, then the hidden field
\* is set to the stored string
EditClass(schedule) ==
    /\ dayListeners < MaxSetups
    /\ dayListeners' = dayListeners + 1
    /\ \E b \in StoredSetups[schedule] :
          /\ SetBuilder([b EXCEPT !.scheduleField = schedule])
          /\ idsAssigned' = idsAssigned \cup (0..(b.timeSlotCounter - 1))
    /\ selectedDays' = <<>>
    /\ dayChecked' = {}
    /\ startTimeInput' = <<"1", "0", ":", "0", "0">>
    /\ endTimeInput' = <<"1", "2", ":", "0", "0">>
    /\ lastOp' = Op("editClass", "done", -1)
    /\ UNCHANGED <<pendingChecks, watched, timeConv>>

\* ------------------------------------------------------------------
\* Conflict check and the submit handler of #classForm
\* ------------------------------------------------------------------

\* how the fetch of /classes/api/check-conflicts and response.json() can end:
\* fetch rejects, the body is no JSON, or the body is an object with or
\* without the fields success and message
Responses ==
    {[kind |-> "network-error", success |-> "undefined", message |-> ""],
     [kind |-> "not-json", success |-> "undefined", message |-> ""],
     [kind |-> "object", success |-> "true", message |-> ""],
     [kind |-> "object", success |-> "false", message |-> "Room is taken"],
     [kind |-> "object", success |-> "undefined", message |-> ""]}

\* the responses with which the request itself has failed
FailedResponses == {r \in Responses : r.kind \in {"network-error", "not-json"}}

\* checkScheduleConflicts without the test of the list's length
checkScheduleConflictsAlwaysFetch(slots) ==
    {[timeSlots |-> o.timeSlots, fetched |-> TRUE, body |-> o.result] :
        o \in formatSchedule(slots)}

\* checkScheduleConflicts(timeSlots) up to its first await: on an empty list it
\* returns at once; otherwise formatSchedule() is called for the request body
\* and the request is sent
checkScheduleConflicts(slots) ==
    IF Len(slots) = 0
    THEN {[timeSlots |-> slots, fetched |-> FALSE, body |-> <<>>]}
    ELSE {[timeSlots |-> o.timeSlots, fetched |-> TRUE, body |-> o.result] :
            o \in formatSchedule(slots)}

\* a catch block that reports a conflict when the request has failed
ConflictResultFailClosed(response) ==
    IF response.kind \in {"network-error", "not-json"}
    THEN [hasConflict |-> TRUE, message |-> "Error checking schedule conflicts"]
    ELSE [hasConflict |-> response.success # "true", message |-> response.message]

\* what checkScheduleConflicts resolves to once the request has settled:
\* { hasConflict: !data.success, message: data.message || '' }, or the value of
\* the catch block when fetch or response.json() throws
ConflictResult(response) ==
    IF response.kind \in {"network-error", "not-json"}
    THEN [hasConflict |-> FALSE, message |-> "Error checking schedule conflicts"]
    ELSE [hasConflict |-> response.success # "true", message |-> response.message]

\* cap on the conflict checks in flight at one time
MaxPending == 2

\* the first error of the submit handler's validation, "" when there is none
RECURSIVE SlotsError(_)
SlotsError(slots) ==
    IF slots = <<>> THEN ""
    ELSE IF Len(Head(slots).days) = 0
         THEN "Each time slot must have at least one day selected"
    ELSE IF Head(slots).startTime = <<>> \/ Head(slots).endTime = <<>>
         THEN "Each time slot must have valid start and end times"
    ELSE SlotsError(Tail(slots))

SubmitError(slots) ==
    IF Len(slots) = 0 THEN "Please add at least one time slot" ELSE SlotsError(slots)

\* sequence s without its i-th element
RemoveAt(s, i) == SubSeq(s, 1, i - 1) \o SubSeq(s, i + 1, Len(s))

\* submit event on #classForm, up to the await of the conflict check: the
\* validation, then checkScheduleConflicts(timeSlots) sends its request
SubmitClick ==
    /\ Len(pendingChecks) < MaxPending
    /\ IF SubmitError(timeSlots) # ""
       THEN /\ lastOp' = Op("submit", SubmitError(timeSlots), -1)
            /\ UNCHANGED <<timeSlots, pendingChecks, watched>>
       ELSE \E c \in checkScheduleConflicts(timeSlots) :
               /\ timeSlots' = c.timeSlots
               /\ pendingChecks' = Append(pendingChecks, c.body)
               /\ watched' \in (IF watched = 0 THEN {0, Len(pendingChecks) + 1}
                                ELSE {watched})
               /\ lastOp' = OpCheck("submit", "awaiting",
                                    [NoCheck EXCEPT !.fetched = c.fetched, !.body = c.body])
    /\ UNCHANGED <<selectedDays, timeSlotCounter, dayChecked, startTimeInput, endTimeInput,
                   scheduleField, scheduleDisplay, dayListeners, idsAssigned, timeConv>>

\* where the followed attempt stands once the i-th pending check has left
WatchedAfter(w, i) == IF i = w THEN 0 ELSE IF i < w THEN w - 1 ELSE w

\* a submit handler that calls classForm.submit() whatever confirm() returns
SubmitResponseAnyAnswer(i, response) ==
    LET result == ConflictResult(response)
        check == [NoCheck EXCEPT !.fetched = TRUE, !.body = pendingChecks[i],
                                 !.response = response.kind,
                                 !.hasConflict = result.hasConflict,
                                 !.message = result.message,
                                 !.wasWatched = (i = watched)]
    IN  /\ pendingChecks' = RemoveAt(pendingChecks, i)
        /\ watched' = WatchedAfter(watched, i)
        /\ IF result.hasConflict
           THEN \E ok \in BOOLEAN :
                   lastOp' = OpCheck("submitResponse", "submitted",
                                     [check EXCEPT !.confirmAsked = TRUE,
                                                   !.confirmed = ok,
                                                   !.submitted = scheduleField])
           ELSE lastOp' = OpCheck("submitResponse", "submitted",
                                  [check EXCEPT !.submitted = scheduleField])
        /\ UNCHANGED <<timeSlots, selectedDays, timeSlotCounter, dayChecked, startTimeInput,
                       endTimeInput, scheduleField, scheduleDisplay, dayListeners,
                       idsAssigned, timeConv>>

\* a submit handler that, when the user declines at the prompt, waits for
\* another answer of the endpoint instead of ending
SubmitResponseAskAgain(i, response) ==
    LET result == ConflictResult(response)
        check == [NoCheck EXCEPT !.fetched = TRUE, !.body = pendingChecks[i],
                                 !.response = response.kind,
                                 !.hasConflict = result.hasConflict,
                                 !.message = result.message,
                                 !.wasWatched = (i = watched)]
    IN  /\ IF result.hasConflict
           THEN \E ok \in BOOLEAN :
                   /\ pendingChecks' = IF ok THEN RemoveAt(pendingChecks, i)
                                       ELSE pendingChecks
                   /\ watched' = IF ok THEN WatchedAfter(watched, i) ELSE watched
                   /\ lastOp' = OpCheck("submitResponse",
                                        IF ok THEN "submitted" ELSE "asking",
                                        [check EXCEPT !.confirmAsked = TRUE,
                                                      !.confirmed = ok,
                                                      !.submitted = IF ok THEN scheduleField
                                                                    ELSE <<>>])
           ELSE /\ pendingChecks' = RemoveAt(pendingChecks, i)
                /\ watched' = WatchedAfter(watched, i)
                /\ lastOp' = OpCheck("submitResponse", "submitted",
                                     [check EXCEPT !.submitted = scheduleField])
        /\ UNCHANGED <<timeSlots, selectedDays, timeSlotCounter, dayChecked, startTimeInput,
                       endTimeInput, scheduleField, scheduleDisplay, dayListeners,
                       idsAssigned, timeConv>>

\* the request of the i-th pending check settles with response and the submit
\* handler goes on: classForm.submit() when no conflict is reported, otherwise
\* confirm(), and classForm.submit() when the user says OK
SubmitResponse(i, response) ==
    LET result == ConflictResult(response)
        check == [NoCheck EXCEPT !.fetched = TRUE, !.body = pendingChecks[i],
                                 !.response = response.kind,
                                 !.hasConflict = result.hasConflict,
                                 !.message = result.message,
                                 !.wasWatched = (i = watched)]
    IN  /\ pendingChecks' = RemoveAt(pendingChecks, i)
        /\ watched' = WatchedAfter(watched, i)
        /\ IF result.hasConflict
           THEN \E ok \in BOOLEAN :
                   lastOp' = OpCheck("submitResponse",
                                     IF ok THEN "submitted" ELSE "declined",
                                     [check EXCEPT !.confirmAsked = TRUE,
                                                   !.confirmed = ok,
                                                   !.submitted = IF ok THEN scheduleField
                                                                 ELSE <<>>])
           ELSE lastOp' = OpCheck("submitResponse", "submitted",
                                  [check EXCEPT !.submitted = scheduleField])
        /\ UNCHANGED <<timeSlots, selectedDays, timeSlotCounter, dayChecked, startTimeInput,
                       endTimeInput, scheduleField, scheduleDisplay, dayListeners,
                       idsAssigned, timeConv>>

Next ==
    \/ \E day \in DayButtons : DayCheckboxChange(day)
    \/ \E day \in DayButtons : DayLabelClick(day)
    \/ ResetDaysClick
    \/ \E t \in TimeChoices : SetStartTime(t)
    \/ \E t \in TimeChoices : SetEndTime(t)
    \/ AddTimeClick
    \/ \E slotId \in SlotIds : RemoveTimeSlot(slotId)
    \/ ShowAddClassModal
    \/ \E schedule \in StoredSchedules : EditClass(schedule)

Spec == Init /\ [][Next]_vars

\* ------------------------------------------------------------------
\* The builder with the form's submit handler
\* ------------------------------------------------------------------

\* the sessions with submits: one day button, the time inputs left at the
\* values resetScheduleBuilder gives them, two stored schedules
SubmitDayButtons == {<<"T">>}

SubmitSchedules == {<<>>, ClickedSchedule}

NextSubmit ==
    \/ \E day \in SubmitDayButtons : DayCheckboxChange(day)
    \/ \E day \in SubmitDayButtons : DayLabelClick(day)
    \/ ResetDaysClick
    \/ AddTimeClick
    \/ \E slotId \in SlotIds : RemoveTimeSlot(slotId)
    \/ ShowAddClassModal
    \/ \E schedule \in SubmitSchedules : EditClass(schedule)
    \/ SubmitClick
    \/ \E i \in 1..Len(pendingChecks), response \in Responses : SubmitResponse(i, response)

SpecSubmit == Init /\ [][NextSubmit]_vars

\* the request that has been in flight longest settles and the user answers
\* the prompt it may lead to
OldestResponse ==
    /\ Len(pendingChecks) >= 1
    /\ \E response \in Responses : SubmitResponse(1, response)

\* the sessions in which no request hangs for ever: fetch resolves or rejects,
\* and confirm() returns
SpecSubmitLive == SpecSubmit /\ WF_vars(OldestResponse)

\* ------------------------------------------------------------------
\* Saving the class record
\* ------------------------------------------------------------------

\* saveClass(), the handler of the submit event of #class-form: the alerts and
\* early returns on the other fields of the form (filled = FALSE) or on an
\* empty schedule, otherwise the request that carries the trimmed value of
\* the hidden schedule input
SaveClass ==
    /\ \E filled \in BOOLEAN :
          LET schedule == Trim(scheduleField)
          IN  lastOp' = IF ~filled \/ schedule = <<>>
                        THEN Op("saveClass", "rejected", -1)
                        ELSE OpCheck("saveClass", "sent",
                                     [NoCheck EXCEPT !.submitted = schedule])
    /\ UNCHANGED <<timeSlots, selectedDays, timeSlotCounter, dayChecked, startTimeInput,
                   endTimeInput, scheduleField, scheduleDisplay, dayListeners,
                   pendingChecks, watched, idsAssigned, timeConv>>

\* the class records opened in the sessions with saves: no schedule, one entry
\* that is no schedule entry, one slot, two slots
SaveSchedules == {<<>>, EntryGarbage, ClickedSchedule, ExampleSchedule}

NextSave ==
    \/ \E schedule \in SaveSchedules : EditClass(schedule)
    \/ ShowAddClassModal
    \/ \E slotId \in SlotIds : RemoveTimeSlot(slotId)
    \/ SubmitClick
    \/ \E i \in 1..Len(pendingChecks), response \in Responses : SubmitResponse(i, response)
    \/ SaveClass

SpecSave == Init /\ [][NextSave]_vars

\* ------------------------------------------------------------------
\* checkScheduleConflicts called on the slot lists of the stored schedules
\* ------------------------------------------------------------------

\* a call checkScheduleConflicts(timeSlots), up to its return or its first await
CheckConflictsCall ==
    /\ Len(pendingChecks) < MaxPending
    /\ \E c \in checkScheduleConflicts(timeSlots) :
          /\ timeSlots' = c.timeSlots
          /\ IF c.fetched
             THEN /\ pendingChecks' = Append(pendingChecks, c.body)
                  /\ lastOp' = OpCheck("checkScheduleConflicts", "awaiting",
                                       [NoCheck EXCEPT !.fetched = TRUE, !.body = c.body])
             ELSE /\ pendingChecks' = pendingChecks
                  /\ lastOp' = OpCheck("checkScheduleConflicts", "returned", NoCheck)
    /\ watched' = watched
    /\ UNCHANGED <<selectedDays, timeSlotCounter, dayChecked, startTimeInput, endTimeInput,
                   scheduleField, scheduleDisplay, dayListeners, idsAssigned, timeConv>>

\* the request of the i-th pending call settles and the call resolves
ConflictResponse(i, response) ==
    LET result == ConflictResult(response)
    IN  /\ pendingChecks' = RemoveAt(pendingChecks, i)
        /\ watched' = watched
        /\ lastOp' = OpCheck("checkScheduleConflicts", "resolved",
                             [NoCheck EXCEPT !.fetched = TRUE, !.body = pendingChecks[i],
                                             !.response = response.kind,
                                             !.hasConflict = result.hasConflict,
                                             !.message = result.message])
        /\ UNCHANGED <<timeSlots, selectedDays, timeSlotCounter, dayChecked, startTimeInput,
                       endTimeInput, scheduleField, scheduleDisplay, dayListeners, idsAssigned, timeConv>>

NextConflict ==
    \/ \E schedule \in StoredSchedules : EditClass(schedule)
    \/ CheckConflictsCall
    \/ \E i \in 1..Len(pendingChecks), response \in Responses : ConflictResponse(i, response)

SpecConflict == Init /\ [][NextConflict]_vars

\* ------------------------------------------------------------------
\* Parsing arbitrary comma-separated inputs: the first editClass after the
\* page has loaded, on every input made of up to MaxEntries pool entries
\* ------------------------------------------------------------------

FirstEditClass(schedule) ==
    /\ dayListeners = 1
    /\ EditClass(schedule)

NextParse == \E schedule \in ParseInputs : FirstEditClass(schedule)

SpecParse == Init /\ [][NextParse]_vars

\* ------------------------------------------------------------------
\* The time conversion on every 24-hour time
\* ------------------------------------------------------------------

TwoDigits(n) == PadStart2(NumToString(n))

Time24(h, m) == TwoDigits(h) \o <<":">> \o TwoDigits(m)

AllTimes24 == {Time24(h, m) : h \in 0..23, m \in 0..59}

InitTime ==
    /\ timeSlots = <<>>
    /\ selectedDays = <<>>
    /\ timeSlotCounter = 0
    /\ dayChecked = {}
    /\ startTimeInput = <<>>
    /\ endTimeInput = <<>>
    /\ scheduleField = <<>>
    /\ scheduleDisplay = <<>>
    /\ dayListeners = 1
    /\ pendingChecks = <<>>
    /\ watched = 0
    /\ idsAssigned = {}
    /\ lastOp = Op("setupScheduleBuilder", "done", -1)
    /\ timeConv \in {[NoTimeConv EXCEPT !.step = "input", !.input = t] : t \in AllTimes24}

FormatTime ==
    /\ timeConv.step = "input"
    /\ timeConv' = [timeConv EXCEPT !.step = "formatted",
                                    !.formatted = formatTimeForSchedule(timeConv.input)]
    /\ UNCHANGED builderVars

ParseTime ==
    /\ timeConv.step = "formatted"
    /\ timeConv' = [timeConv EXCEPT !.step = "parsed",
                                    !.parsed = parse12HourTime(timeConv.formatted)]
    /\ UNCHANGED builderVars

NextTime == FormatTime \/ ParseTime

SpecTime == InitTime /\ [][NextTime]_vars

\* ------------------------------------------------------------------
\* Properties
\* ------------------------------------------------------------------

FormatResults(slots) == {o.result : o \in formatSchedule(slots)}

\* a slot made by an add-slot click carries isOvernight, a parsed one does not
ClickBuilt(slots) == \A i \in 1..Len(slots) : slots[i].isOvernight # "undefined"

DayTimeTuples(slots) ==
    [i \in 1..Len(slots) |->
        <<Range(slots[i].days), slots[i].startTime, slots[i].endTime>>]

SlotTuples(slots) ==
    [i \in 1..Len(slots) |-> <<slots[i].days, slots[i].startTime, slots[i].endTime>>]

\* C1: when a slot list S built by add-slot clicks is saved and its formatted
\* string is loaded by editClass, the loaded list has the same sequence of
\* (set of day codes, startTime, endTime) as S, the day codes compared exactly.
RoundTripModelLevel ==
    [][(/\ lastOp'.op = "editClass"
        /\ timeSlots # <<>>
        /\ ClickBuilt(timeSlots)
        /\ scheduleField' \in FormatResults(timeSlots))
       => DayTimeTuples(timeSlots') = DayTimeTuples(timeSlots)]_vars

\* strings the formatter emits for slot lists built by clicks
CanonicalSchedules == {ExampleSchedule, ClickedSchedule, ThreeDaySchedule}

\* a schedule string without its last entry
WithoutLastEntry(s) ==
    LET entries == ScheduleEntries(s)
    IN  Join(SubSeq(entries, 1, Len(entries) - 1), <<",", " ">>)

\* C2: once editClass has loaded a canonical string s, formatSchedule() on the
\* parsed slots returns exactly s, and once the last slot is then removed it
\* returns s without its last entry.
StringRoundTrip ==
    [][/\ (lastOp'.op = "editClass" /\ scheduleField' \in CanonicalSchedules)
            => FormatResults(timeSlots') = {scheduleField'}
       /\ (/\ lastOp.op = "editClass"
           /\ scheduleField \in CanonicalSchedules
           /\ lastOp'.op = "removeTimeSlot"
           /\ timeSlots # <<>>
           /\ lastOp'.slotId = timeSlots[Len(timeSlots)].id)
            => FormatResults(timeSlots') = {WithoutLastEntry(scheduleField)}]_vars

\* the hour of the 12-hour clock for hour h of the 24-hour clock
Hour12(h) == IF h = 0 THEN 12 ELSE IF h <= 12 THEN h ELSE h - 12

Time12(h, m) ==
    NumToString(Hour12(h)) \o <<":">> \o TwoDigits(m) \o <<" ">>
        \o (IF h < 12 THEN <<"A", "M">> ELSE <<"P", "M">>)

\* C3: for every 24-hour time t = HH:MM, formatTimeForSchedule(t) is
\* 'H:MM AM/PM' (0 -> 12 AM, 12 -> 12 PM, 13..23 -> h-12 PM) and
\* parse12HourTime of it is t again.
TimeRoundTrip ==
    /\ timeConv.step \in {"formatted", "parsed"} =>
          \E h \in 0..23, m \in 0..59 :
              /\ timeConv.input = Time24(h, m)
              /\ timeConv.formatted = Time12(h, m)
    /\ timeConv.step = "parsed" => timeConv.parsed = timeConv.input

\* midnight has come back from "12:00 AM"
TimeRoundTripWitness ==
    /\ timeConv.step = "parsed"
    /\ timeConv.input = <<"0", "0", ":", "0", "0">>
    /\ timeConv.formatted = <<"1", "2", ":", "0", "0", " ", "A", "M">>

\* the place of a day in the week, the code read without regard to case
WeekdayRank(d) ==
    CHOOSE i \in 1..Len(DayCodes) : ToUpperCase(DayCodes[i]) = ToUpperCase(d)

InWeekdayOrder(days) ==
    \A j, k \in 1..Len(days) : j < k => WeekdayRank(days[j]) <= WeekdayRank(days[k])

\* C4: for every slot of the list, however it was made, formatSchedule emits
\* the slot's days in the order M, T, W, Th, F, S, Su.
DaySortDeterminism ==
    \A o \in formatSchedule(timeSlots) :
        \A i \in 1..Len(o.timeSlots) : InWeekdayOrder(o.timeSlots[i].days)

\* C5: an add-slot click that fails the handler's validation leaves timeSlots,
\* selectedDays, timeSlotCounter and the hidden field as they were.
RejectedAddUnchanged ==
    [][(/\ lastOp'.op = "addTimeClick"
        /\ AddClickWarning(Trim(startTimeInput), Trim(endTimeInput), selectedDays) # "")
       => UNCHANGED <<timeSlots, selectedDays, timeSlotCounter, scheduleField>>]_vars

\* a click was rejected with a slot in the list and a day selected
RejectedAddWitness ==
    /\ lastOp.op = "addTimeClick"
    /\ lastOp.outcome = "rejected"
    /\ Len(timeSlots) >= 1
    /\ selectedDays # <<>>

\* C6 as stated: an add-slot click with both times given and the end's
\* minute-of-day at or before the start's appends no slot.
AddRejectsEndNotAfterStart ==
    [][(/\ lastOp'.op = "addTimeClick"
        /\ Trim(startTimeInput) # <<>>
        /\ Trim(endTimeInput) # <<>>
        /\ TotalMinutes(Trim(endTimeInput)) <= TotalMinutes(Trim(startTimeInput)))
       => Len(timeSlots') = Len(timeSlots)]_vars

\* C6 as amended: a click with the end's minute-of-day equal to the start's
\* appends no slot; with the end before the start and a day selected, the click
\* appends one slot flagged overnight.
AddRejectsEqualTimes ==
    [][(/\ lastOp'.op = "addTimeClick"
        /\ Trim(startTimeInput) # <<>>
        /\ Trim(endTimeInput) # <<>>)
       => LET startMin == TotalMinutes(Trim(startTimeInput))
              endMin == TotalMinutes(Trim(endTimeInput))
          IN  /\ endMin = startMin => timeSlots' = timeSlots
              /\ (endMin < startMin /\ selectedDays # <<>>) =>
                    /\ Len(timeSlots') = Len(timeSlots) + 1
                    /\ timeSlots'[Len(timeSlots')].isOvernight = "true"]_vars

\* a click with equal times and a day selected was rejected
EqualTimesWitness ==
    /\ lastOp.op = "addTimeClick"
    /\ lastOp.outcome = "rejected"
    /\ selectedDays # <<>>
    /\ startTimeInput # <<>>
    /\ startTimeInput = endTimeInput

\* the entries a slot is to come of: the entry pattern matches and both times parse
WellFormedEntries == {EntryMWF, EntryTTh, EntryLoose}

\* the slots of an entry parsed as the whole input
AloneTuples(entry) == SlotTuples((CHOOSE b \in StoredSetups[entry] : TRUE).timeSlots)

RECURSIVE EachAloneTuples(_)
EachAloneTuples(es) ==
    IF es = <<>> THEN <<>> ELSE AloneTuples(Head(es)) \o EachAloneTuples(Tail(es))

\* the input each sequence of entries makes, joined with ", "
JoinedEntries == [es \in EntrySeqs |-> Join(es, <<",", " ">>)]

\* C7: the slots parsed from entries joined with ", " are, in input order, the
\* slots of each entry parsed alone: one for a well-formed entry, none for
\* any other, whatever stands before or after it.
ParseResilient ==
    /\ \A e \in EntryPool : Len(AloneTuples(e)) = (IF e \in WellFormedEntries THEN 1 ELSE 0)
    /\ lastOp.op = "editClass" =>
          \A es \in EntrySeqs :
              scheduleField = JoinedEntries[es]
                  => SlotTuples(timeSlots) = EachAloneTuples(es)

\* the input with the garbage entry in the middle gave two slots
ParseResilientWitness ==
    /\ lastOp.op = "editClass"
    /\ scheduleField = GarbageSchedule
    /\ Len(timeSlots) = 2
    /\ timeSlots[1].startTime = <<"1", "0", ":", "0", "0">>
    /\ timeSlots[2].startTime = <<"1", "3", ":", "0", "0">>

\* C8: "TH 9:00 AM-10:00 AM" parses to one slot whose days are exactly ["Th"].
ThursdayCanonical ==
    (lastOp.op = "editClass" /\ scheduleField = ThursdaySchedule)
        => /\ Len(timeSlots) = 1
           /\ timeSlots[1].days = << <<"T", "h">> >>

\* how many times each day occurs in a slot's days
DayBag(days) == [d \in Range(days) |-> Cardinality({i \in 1..Len(days) : days[i] = d})]

SlotIdent(slot) ==
    [id |-> slot.id, days |-> DayBag(slot.days),
     startTime |-> slot.startTime, endTime |-> slot.endTime]

SlotIdents(slots) == [i \in 1..Len(slots) |-> SlotIdent(slots[i])]

KeepsOtherThan(slotId, slot) == slot.id # slotId

\* C9: removeTimeSlot(X) leaves the previous list without the slot of id X, the
\* others in their order (the list as it was when no slot has id X), and the
\* hidden field holds the format of the remaining slots, "" when none remain.
RemovalKeepsOthers ==
    [][lastOp'.op = "removeTimeSlot"
       => /\ SlotIdents(timeSlots')
                = SlotIdents(SelectSeq(timeSlots,
                                       LAMBDA s : KeepsOtherThan(lastOp'.slotId, s)))
          /\ ~HasSlotId(timeSlots, lastOp'.slotId)
                => SlotIdents(timeSlots') = SlotIdents(timeSlots)
          /\ scheduleField' \in FormatResults(timeSlots')
          /\ timeSlots' = <<>> => scheduleField' = <<>>]_vars

\* a slot was removed and another is left
RemovalWitness ==
    /\ lastOp.op = "removeTimeSlot"
    /\ lastOp.outcome = "removed"
    /\ Len(timeSlots) >= 1
    /\ ~HasSlotId(timeSlots, lastOp.slotId)

\* C10: formatSchedule on an empty list returns ""; setupScheduleBuilder with an
\* empty schedule string, in whatever state it is called, leaves the list
\* empty and the hidden field empty.
EmptyScheduleEmpty ==
    /\ timeSlots = <<>> => FormatResults(timeSlots) = {<<>>}
    /\ \A b \in setupScheduleBuilder(Builder, <<>>) :
          b.timeSlots = <<>> /\ b.scheduleField = <<>>
    /\ (lastOp.op = "editClass" /\ scheduleField = <<>>) => timeSlots = <<>>

\* a class with an empty schedule was opened for editing
EmptyScheduleWitness ==
    /\ lastOp.op = "editClass"
    /\ scheduleField = <<>>
    /\ timeSlots = <<>>
    /\ scheduleDisplay = <<>>

\* every days array of the list is one the comparator orders consistently
ConsistentDays(slots) == \A i \in 1..Len(slots) : ConsistentComparator(slots[i].days)

\* the days arrays of a slot list, in list order
DaysOf(slots) == [i \in 1..Len(slots) |-> slots[i].days]

\* C11: formatSchedule changes nothing in the model. Taken where the sort's
\* outcome is defined (the comparator orders every days array consistently):
\* the list addTimeSlot has pushed the clicked slot onto, its days in the order
\* they were selected, is the list after the formatSchedule call of that add,
\* every slot's stored order of days as before; and formatSchedule called again
\* returns the string already stored.
FormatterPurity ==
    [][(/\ lastOp'.op = "addTimeClick"
        /\ lastOp'.outcome = "added"
        /\ ConsistentDays(timeSlots'))
       => /\ DaysOf(timeSlots') = Append(DaysOf(timeSlots), selectedDays)
          /\ FormatResults(timeSlots') = {scheduleField'}]_vars

\* C13: an accepted add leaves the slots that were in the list in their places
\* and puts the new slot (the id of the counter, the times typed, the days
\* selected) last; the string formatSchedule has stored then is, split at its
\* commas, one piece per slot, the i-th piece the rendering of the i-th slot
\* (after a blank, but for the first).
SlotOrder ==
    [][(lastOp'.op = "addTimeClick" /\ lastOp'.outcome = "added")
       => /\ Len(timeSlots') = Len(timeSlots) + 1
          /\ SubSeq(SlotIdents(timeSlots'), 1, Len(timeSlots)) = SlotIdents(timeSlots)
          /\ SlotIdent(timeSlots'[Len(timeSlots')])
                = [id |-> timeSlotCounter, days |-> DayBag(selectedDays),
                   startTime |-> Trim(startTimeInput), endTime |-> Trim(endTimeInput)]
          /\ Split(scheduleField', ",")
                = [i \in 1..Len(timeSlots') |->
                      (IF i = 1 THEN <<>> ELSE <<" ">>) \o FormatSlot(timeSlots'[i])]]_vars

\* a slot was added behind one that starts later in the day
SlotOrderWitness ==
    /\ lastOp.op = "addTimeClick"
    /\ lastOp.outcome = "added"
    /\ Len(timeSlots) = 2
    /\ TotalMinutes(timeSlots[2].startTime) < TotalMinutes(timeSlots[1].startTime)

\* C14: resetScheduleBuilder leaves the slot list empty, selectedDays empty,
\* every day checkbox unchecked and the hidden field "", whatever the state
\* it is called in.
ResetClearsAll ==
    [][lastOp'.op = "resetScheduleBuilder"
       => /\ timeSlots' = <<>>
          /\ selectedDays' = <<>>
          /\ dayChecked' = {}
          /\ scheduleField' = <<>>]_vars

\* the form was reset after a class had been opened for editing
ResetWitness ==
    /\ lastOp.op = "resetScheduleBuilder"
    /\ dayListeners >= 2
    /\ timeSlots = <<>>
    /\ dayChecked = {}

\* C12: when the conflict-check request has failed (fetch rejected, or the body
\* was no JSON), checkScheduleConflicts has resolved to hasConflict = false with
\* its diagnostic message, and the submit handler has submitted the form without
\* asking for confirmation.
FailOpenConflictCheck ==
    (lastOp.op = "submitResponse" /\ lastOp.check.response \in {r.kind : r \in FailedResponses})
        => /\ lastOp.check.hasConflict = FALSE
           /\ lastOp.check.message = "Error checking schedule conflicts"
           /\ lastOp.check.confirmAsked = FALSE
           /\ lastOp.outcome = "submitted"

\* the form was submitted after the request of its conflict check had failed
FailOpenWitness ==
    /\ lastOp.op = "submitResponse"
    /\ lastOp.check.response = "network-error"
    /\ lastOp.outcome = "submitted"
    /\ lastOp.check.submitted # <<>>

\* C15: checkScheduleConflicts called with an empty slot list returns
\* { hasConflict: false, message: '' } and sends no request.
EmptyCheckShortCircuit ==
    [][(lastOp'.op = "checkScheduleConflicts"
        /\ lastOp'.outcome \in {"returned", "awaiting"}
        /\ timeSlots = <<>>)
       => /\ lastOp'.outcome = "returned"
          /\ lastOp'.check.hasConflict = FALSE
          /\ lastOp'.check.message = ""
          /\ lastOp'.check.fetched = FALSE
          /\ pendingChecks' = pendingChecks]_vars

\* the call returned on an empty list while the request of an earlier call,
\* made on a list with slots, was still in flight
EmptyCheckWitness ==
    /\ lastOp.op = "checkScheduleConflicts"
    /\ lastOp.outcome = "returned"
    /\ timeSlots = <<>>
    /\ Len(pendingChecks) = 1

\* the ids a step gives to slots: the counter's value on an accepted add, the
\* ids 0, 1, ... of the parsed slots on an edit-load
NewIds ==
    IF lastOp'.op = "addTimeClick" /\ lastOp'.outcome = "added" THEN {timeSlotCounter}
    ELSE IF lastOp'.op = "editClass" THEN 0..(timeSlotCounter' - 1)
    ELSE {}

\* C16 as stated: over add, remove, reset, setup and edit-load in one page
\* session, no step gives a slot an id that a slot was given before.
IdNeverReused == [][NewIds \cap idsAssigned = {}]_vars

\* C16 as amended: an accepted add gives the slot the counter's value, above the
\* id of every slot in the list, and moves the counter on by one; the counter
\* goes down only in resetScheduleBuilder and in the edit-load, which empty the
\* list first; the ids of the list are distinct and below the counter.
IdFreshUntilReset ==
    [][/\ (lastOp'.op = "addTimeClick" /\ lastOp'.outcome = "added")
            => /\ timeSlots'[Len(timeSlots')].id = timeSlotCounter
               /\ \A i \in 1..Len(timeSlots) : timeSlots[i].id < timeSlotCounter
               /\ timeSlotCounter' = timeSlotCounter + 1
       /\ timeSlotCounter' < timeSlotCounter
            => /\ lastOp'.op \in {"resetScheduleBuilder", "editClass"}
               /\ \A i \in 1..Len(timeSlots') : timeSlots'[i].id \in NewIds
       /\ \A i, j \in 1..Len(timeSlots') :
             /\ timeSlots'[i].id < timeSlotCounter'
             /\ i # j => timeSlots'[i].id # timeSlots'[j].id]_vars

\* id 0 was given again: the list holds one slot, made by a click, with id 0,
\* in a session in which the ids 0 and 1 had been given before the counter was
\* set back
IdRestartWitness ==
    /\ lastOp.op = "addTimeClick"
    /\ lastOp.outcome = "added"
    /\ Len(timeSlots) = 1
    /\ timeSlots[1].id = 0
    /\ 1 \in idsAssigned

\* C17: every slot of the list, made by a click or parsed from a stored string,
\* has at least one day and a non-empty startTime and endTime.
SlotsHaveDayAndTimes ==
    \A i \in 1..Len(timeSlots) :
        /\ Len(timeSlots[i].days) >= 1
        /\ timeSlots[i].startTime # <<>>
        /\ timeSlots[i].endTime # <<>>

\* C18: no slot of the list holds the same day code twice, the slots parsed
\* from a stored string included.
NoRepeatedDay ==
    \A i \in 1..Len(timeSlots) :
        \A j, k \in 1..Len(timeSlots[i].days) :
            j # k => timeSlots[i].days[j] # timeSlots[i].days[k]

\* C19: no slot of the list has startTime equal to endTime, the slots parsed
\* from a stored string included.
NoEqualTimes ==
    \A i \in 1..Len(timeSlots) : timeSlots[i].startTime # timeSlots[i].endTime

\* HH:MM with 00 <= HH <= 23 and 00 <= MM <= 59
IsWallClock(time) ==
    /\ Len(time) = 5
    /\ IsDigit(time[1]) /\ IsDigit(time[2]) /\ time[3] = ":"
    /\ IsDigit(time[4]) /\ IsDigit(time[5])
    /\ ParseInt(SubSeq(time, 1, 2)) <= 23
    /\ ParseInt(SubSeq(time, 4, 5)) <= 59

\* C20: every slot's startTime and endTime is a 24-hour wall-clock time HH:MM,
\* the slots parsed from a stored string included.
TimesAreWallClock ==
    \A i \in 1..Len(timeSlots) :
        IsWallClock(timeSlots[i].startTime) /\ IsWallClock(timeSlots[i].endTime)

\* the builder operations that can change the slot list
ChangesSlotList(op) ==
    \/ op.op \in {"removeTimeSlot", "resetScheduleBuilder", "editClass"}
    \/ op.op = "addTimeClick" /\ op.outcome = "added"

\* C21 as stated: after every builder operation that can change the slot list,
\* the edit-load among them, the hidden field holds what formatSchedule()
\* returns on the list.
HiddenFieldSync ==
    [][ChangesSlotList(lastOp') => scheduleField' \in FormatResults(timeSlots')]_vars

\* C21 as amended: after add-slot, remove-slot and reset the hidden field holds
\* what formatSchedule() returns on the list; after editClass it holds the
\* stored string as it was given, and the list holds the slots parsed from it.
HiddenFieldSyncButEdit ==
    [][/\ (ChangesSlotList(lastOp') /\ lastOp'.op # "editClass")
            => scheduleField' \in FormatResults(timeSlots')
       /\ lastOp'.op = "editClass"
            => /\ scheduleField' \in StoredSchedules
               /\ timeSlots' \in {b.timeSlots : b \in StoredSetups[scheduleField']}]_vars

\* a class was opened whose stored string is not what formatSchedule() returns
\* on the slots parsed from it
StoredStringKeptWitness ==
    /\ lastOp.op = "editClass"
    /\ scheduleField = GarbageSchedule
    /\ Len(timeSlots) = 2
    /\ scheduleField \notin FormatResults(timeSlots)

\* C22: at no time are two conflict-check requests of the form in flight.
OneCheckInFlight == Len(pendingChecks) <= 1

\* C23: the form is submitted only in the step in which the attempt's conflict
\* check, sent before, completes, and only when the check reported no conflict
\* or the user said OK at the prompt; when a conflict is reported and the user
\* declines, the form is not submitted.
SubmitOrdering ==
    [][/\ lastOp'.outcome = "submitted"
            => /\ lastOp'.op = "submitResponse"
               /\ Len(pendingChecks) >= 1
               /\ lastOp'.check.body \in Range(pendingChecks)
               /\ Len(pendingChecks') = Len(pendingChecks) - 1
               /\ lastOp'.check.response # "none"
               /\ \/ ~lastOp'.check.hasConflict /\ ~lastOp'.check.confirmAsked
                  \/ /\ lastOp'.check.hasConflict
                     /\ lastOp'.check.confirmAsked
                     /\ lastOp'.check.confirmed
       /\ (/\ lastOp'.op = "submitResponse"
           /\ lastOp'.check.hasConflict
           /\ ~lastOp'.check.confirmed)
            => /\ lastOp'.outcome = "declined"
               /\ lastOp'.check.submitted = <<>>]_vars

\* a conflict was reported, the user declined and the form was not submitted
SubmitDeclinedWitness ==
    /\ lastOp.op = "submitResponse"
    /\ lastOp.check.hasConflict
    /\ lastOp.check.confirmAsked
    /\ ~lastOp.check.confirmed
    /\ lastOp.outcome = "declined"

\* C24: once the add-class modal is opened the slot list is empty; once the
\* edit-class modal is opened the slot list holds the slots parsed from the
\* class's stored string, all of them parsed ones, with the ids 0, 1, ...; in
\* both cases no day is selected and no checkbox is checked.
NoCrossContamination ==
    [][/\ lastOp'.op = "resetScheduleBuilder"
            => timeSlots' = <<>> /\ selectedDays' = <<>> /\ dayChecked' = {}
       /\ lastOp'.op = "editClass"
            => /\ SlotTuples(timeSlots')
                    \in {SlotTuples(b.timeSlots) :
                            b \in StoredSetups[scheduleField']}
               /\ ~\E i \in 1..Len(timeSlots') : timeSlots'[i].isOvernight # "undefined"
               /\ SlotIdsOf(timeSlots') = [i \in 1..Len(timeSlots') |-> i - 1]
               /\ scheduleDisplay' = SlotIdsOf(timeSlots')
               /\ selectedDays' = <<>>
               /\ dayChecked' = {}]_vars

\* a class with one stored slot was opened after a class with two
SecondOpeningWitness ==
    /\ lastOp.op = "editClass"
    /\ dayListeners >= 3
    /\ scheduleField = ThursdaySchedule
    /\ Len(timeSlots) = 1
    /\ 1 \in idsAssigned

\* the entries that lack AM/PM on one of their two times
AmPmLessEntries == {EntryNoStartAmPm, EntryNoEndAmPm}

HasBothAmPm(e) == e \notin AmPmLessEntries

\* the slots of the input made of the entries of es that carry both AM/PM
WithoutAmPmLess ==
    [es \in EntrySeqs |->
        SlotTuples((CHOOSE b \in StoredSetups[JoinedEntries[SelectSeq(es, HasBothAmPm)]] :
                       TRUE).timeSlots)]

\* C25: an entry without AM/PM on its start time matches the entry pattern,
\* its start time does not parse, and it gives no slot; an entry without AM/PM
\* on its end time does not match the pattern; the slots parsed from a string
\* holding such entries are the slots of the string without them.
AmPmAsymmetry ==
    /\ MatchEntry(EntryNoStartAmPm).ok
    /\ parse12HourTime(MatchEntry(EntryNoStartAmPm).startTimeStr) = <<>>
    /\ parse12HourTime(MatchEntry(EntryNoStartAmPm).endTimeStr) # <<>>
    /\ ~MatchEntry(EntryNoEndAmPm).ok
    /\ lastOp.op = "editClass" =>
          \A es \in EntrySeqs :
              scheduleField = JoinedEntries[es]
                  => SlotTuples(timeSlots) = WithoutAmPmLess[es]

\* a well-formed entry between one without start AM/PM and one without end
\* AM/PM gave the only slot
AmPmAsymmetryWitness ==
    /\ lastOp.op = "editClass"
    /\ scheduleField = JoinedEntries[<<EntryNoStartAmPm, EntryMWF, EntryNoEndAmPm>>]
    /\ Len(timeSlots) = 1
    /\ timeSlots[1].days = <<<<"M">>, <<"W">>, <<"F">>>>

\* C26: every submit attempt that passed the validation of the slot list and
\* awaits its conflict check comes to an end: the form is submitted, or the
\* user declines at the conflict prompt.
SubmitAttemptEnds ==
    (watched # 0) ~> (/\ lastOp.op = "submitResponse"
                      /\ lastOp.check.wasWatched
                      /\ lastOp.outcome \in {"submitted", "declined"})

\* the followed attempt ended with the user declining, another still in flight
FollowedAttemptEndedWitness ==
    /\ lastOp.op = "submitResponse"
    /\ lastOp.check.wasWatched
    /\ lastOp.outcome = "declined"
    /\ watched = 0
    /\ Len(pendingChecks) = 1

Toggled(set, day) == IF day \in set THEN set \ {day} ELSE set \cup {day}

\* C27: a click on the label of a day button flips the checkbox of that day,
\* and the membership of that day in the selected days, once, however many
\* times setupScheduleBuilder has run.
LabelClickTogglesOnce ==
    [][lastOp'.op = "dayLabelClick"
          => \E day \in DayButtons :
                /\ dayChecked' = Toggled(dayChecked, day)
                /\ Range(selectedDays') = Toggled(Range(selectedDays), day)]_vars

\* C28: when a submit attempt ends with classForm.submit(), the value of the
\* hidden schedule field that goes out is the string that was sent to the
\* conflict-check endpoint for that attempt.
SubmittedIsChecked ==
    [][(lastOp'.op = "submitResponse" /\ lastOp'.outcome = "submitted")
          => lastOp'.check.submitted = lastOp'.check.body]_vars

NeverSavedWithoutSlots ==
    [][/\ (\/ lastOp'.op = "saveClass" /\ lastOp'.outcome = "sent"
           \/ lastOp'.op = "submitResponse" /\ lastOp'.outcome = "submitted")
            => /\ Len(timeSlots') >= 1
               /\ lastOp'.check.submitted # <<>>
       /\ (lastOp'.op = "submit" /\ timeSlots = <<>>)
            => /\ lastOp'.outcome = "Please add at least one time slot"
               /\ pendingChecks' = pendingChecks]_vars

====
